---- MODULE Spec2Model ----
(***************************************************************************)
(* A model of the bigint class of bigint.hpp: a sign flag and a vector of  *)
(* decimal digits, least-significant digit first, with its constructors,   *)
(* comparison and arithmetic operators and its decimal output.             *)
(*                                                                         *)
(* A bigint is the record [is_negative |-> BOOLEAN, vec |-> Seq(0..9)];    *)
(* vec[1] is the C++ vec[0].  A string is a sequence of character codes.   *)
(* A call that can throw or loop forever returns an outcome record:        *)
(* [kind |-> "ok", val |-> v], [kind |-> "throw", what |-> message] or     *)
(* [kind |-> "hang"].                                                      *)
(***************************************************************************)
EXTENDS Integers, Sequences, FiniteSets

(***************************************************************************)
(* Bounds of the model.                                                    *)
(***************************************************************************)
\* Registers of the caller hold values of at most this magnitude.
MaxMag == 6
\* Operands of the pure-operator specification have at most this magnitude.
MaxOperand == 104
\* Strings handed to the string constructor have at most this many characters:
\* in a sequence of calls, and when the constructor is checked on its own.
MaxCallStrLen == 2
MaxStrLen == 3

(***************************************************************************)
(* Character codes (ASCII) used by the string constructor and operator<<.  *)
(***************************************************************************)
CH_ZERO == 48
CH_NINE == 57
CH_MINUS == 45

\* The characters strings are drawn from: '-', '+', ' ', '0', '1', '7', '9', 'a'.
Alphabet == {45, 43, 32, 48, 49, 55, 57, 97}

\* std::isdigit in the "C" locale.
isdigit(c) == CH_ZERO <= c /\ c <= CH_NINE

(***************************************************************************)
(* Outcomes of a call.                                                     *)
(***************************************************************************)
Ok(v) == [kind |-> "ok", val |-> v]
Throw(msg) == [kind |-> "throw", what |-> msg]
Hang == [kind |-> "hang"]

(***************************************************************************)
(* trim() and the private constructor bigint(bool, vector).                *)
(***************************************************************************)
RECURSIVE trim_vec(_)
trim_vec(v) ==
    IF Len(v) > 1 /\ v[Len(v)] = 0 THEN trim_vec(SubSeq(v, 1, Len(v) - 1)) ELSE v

trim(n) ==
    LET v == trim_vec(n.vec)
    IN  [is_negative |-> IF Len(v) = 1 /\ v[1] = 0 THEN FALSE ELSE n.is_negative,
         vec |-> v]

bigint_vec(negative, vector) == trim([is_negative |-> negative, vec |-> vector])

\* bigint(): vec({0}), is_negative = false.
bigint_default == [is_negative |-> FALSE, vec |-> <<0>>]

(***************************************************************************)
(* bigint(int64_t): the digits of |num| by repeated % 10 and / 10.         *)
(***************************************************************************)
RECURSIVE int_digits(_, _)
int_digits(num, vec) ==
    IF num > 0 THEN int_digits(num \div 10, Append(vec, num % 10)) ELSE vec

bigint_int(num) ==
    LET neg == num < 0
        n   == IF neg THEN -num ELSE num
    IN  [is_negative |-> neg,
         vec |-> int_digits(n, IF n = 0 THEN <<0>> ELSE <<>>)]

(***************************************************************************)
(* The unsigned digit-vector primitives.                                   *)
(***************************************************************************)
Max(a, b) == IF a > b THEN a ELSE b

\* A variant of add_loop that stops after the last digit and drops the carry.
RECURSIVE add_loop_DropCarry(_, _, _, _, _)
add_loop_DropCarry(a, b, i, carry, result) ==
    IF i < Max(Len(a), Len(b))
    THEN LET sum == carry + (IF i < Len(a) THEN a[i + 1] ELSE 0)
                          + (IF i < Len(b) THEN b[i + 1] ELSE 0)
         IN  add_loop_DropCarry(a, b, i + 1, sum \div 10, Append(result, sum % 10))
    ELSE result

\* The loop of add_vec from index i (0-based) with the carry so far.
RECURSIVE add_loop(_, _, _, _, _)
add_loop(a, b, i, carry, result) ==
    IF i < Max(Len(a), Len(b)) \/ carry # 0
    THEN LET sum == carry + (IF i < Len(a) THEN a[i + 1] ELSE 0)
                          + (IF i < Len(b) THEN b[i + 1] ELSE 0)
         IN  add_loop(a, b, i + 1, sum \div 10, Append(result, sum % 10))
    ELSE result

add_vec(a, b) == add_loop(a, b, 0, 0, <<>>)

\* The loop of subtract_vec from index i (0-based) with the borrow so far.
RECURSIVE subtract_loop(_, _, _, _, _)
subtract_loop(a, b, i, borrow, result) ==
    IF i < Len(a)
    THEN LET diff == a[i + 1] - borrow - (IF i < Len(b) THEN b[i + 1] ELSE 0)
         IN  IF diff < 0
             THEN subtract_loop(a, b, i + 1, 1, Append(result, diff + 10))
             ELSE subtract_loop(a, b, i + 1, 0, Append(result, diff))
    ELSE result

subtract_vec(a, b) == trim_vec(subtract_loop(a, b, 0, 0, <<>>))

\* The digit loop of abs_compare and operator<, from index i (1-based) down:
\* the first index at which a and b differ, 0 when there is none.
RECURSIVE first_diff(_, _, _)
first_diff(a, b, i) ==
    IF i = 0 THEN 0
    ELSE IF a[i] # b[i] THEN i ELSE first_diff(a, b, i - 1)

\* The comparison by length alone.
abs_compare_SizeOnly(a, b) ==
    IF Len(a) > Len(b) THEN 1 ELSE IF Len(a) < Len(b) THEN -1 ELSE 0

abs_compare(a, b) ==
    IF Len(a) # Len(b)
    THEN (IF Len(a) > Len(b) THEN 1 ELSE -1)
    ELSE LET i == first_diff(a, b, Len(a))
         IN  IF i = 0 THEN 0 ELSE IF a[i] > b[i] THEN 1 ELSE -1

(***************************************************************************)
(* The comparison operators.                                               *)
(***************************************************************************)
op_eq(lhs, rhs) == lhs.is_negative = rhs.is_negative /\ lhs.vec = rhs.vec

op_ne(lhs, rhs) == ~op_eq(lhs, rhs)

\* A variant of operator< that compares the digit counts as if both numbers
\* were positive.
op_lt_UnsignedLength(lhs, rhs) ==
    IF lhs.is_negative # rhs.is_negative THEN lhs.is_negative
    ELSE IF Len(lhs.vec) # Len(rhs.vec)
    THEN Len(lhs.vec) < Len(rhs.vec)
    ELSE LET i == first_diff(lhs.vec, rhs.vec, Len(lhs.vec))
         IN  IF i = 0 THEN FALSE
             ELSE IF lhs.is_negative THEN lhs.vec[i] > rhs.vec[i]
                                     ELSE lhs.vec[i] < rhs.vec[i]

\* A variant of operator< that returns true when all digits are equal.
op_lt_OrEqual(lhs, rhs) ==
    IF lhs.is_negative # rhs.is_negative THEN lhs.is_negative
    ELSE IF Len(lhs.vec) # Len(rhs.vec)
    THEN (IF lhs.is_negative THEN Len(lhs.vec) > Len(rhs.vec)
                             ELSE Len(lhs.vec) < Len(rhs.vec))
    ELSE LET i == first_diff(lhs.vec, rhs.vec, Len(lhs.vec))
         IN  IF i = 0 THEN TRUE
             ELSE IF lhs.is_negative THEN lhs.vec[i] > rhs.vec[i]
                                     ELSE lhs.vec[i] < rhs.vec[i]

op_lt(lhs, rhs) ==
    IF lhs.is_negative # rhs.is_negative THEN lhs.is_negative
    ELSE IF Len(lhs.vec) # Len(rhs.vec)
    THEN (IF lhs.is_negative THEN Len(lhs.vec) > Len(rhs.vec)
                             ELSE Len(lhs.vec) < Len(rhs.vec))
    ELSE LET i == first_diff(lhs.vec, rhs.vec, Len(lhs.vec))
         IN  IF i = 0 THEN FALSE
             ELSE IF lhs.is_negative THEN lhs.vec[i] > rhs.vec[i]
                                     ELSE lhs.vec[i] < rhs.vec[i]

op_le(lhs, rhs) == op_lt(lhs, rhs) \/ op_eq(lhs, rhs)

op_gt(lhs, rhs) == ~op_le(lhs, rhs)

op_ge(lhs, rhs) == ~op_lt(lhs, rhs)

(***************************************************************************)
(* operator+, operator-, unary operator-.                                  *)
(***************************************************************************)
op_add(lhs, rhs) ==
    IF lhs.is_negative = rhs.is_negative
    THEN bigint_vec(lhs.is_negative, add_vec(lhs.vec, rhs.vec))
    ELSE IF abs_compare(lhs.vec, rhs.vec) >= 0
    THEN bigint_vec(lhs.is_negative, subtract_vec(lhs.vec, rhs.vec))
    ELSE bigint_vec(rhs.is_negative, subtract_vec(rhs.vec, lhs.vec))

\* A variant of operator- that keeps the sign of the left operand when the
\* right operand is the larger.
op_sub_KeepSign(lhs, rhs) ==
    IF lhs.is_negative # rhs.is_negative
    THEN bigint_vec(lhs.is_negative, add_vec(lhs.vec, rhs.vec))
    ELSE IF abs_compare(lhs.vec, rhs.vec) >= 0
    THEN bigint_vec(lhs.is_negative, subtract_vec(lhs.vec, rhs.vec))
    ELSE bigint_vec(lhs.is_negative, subtract_vec(rhs.vec, lhs.vec))

op_sub(lhs, rhs) ==
    IF lhs.is_negative # rhs.is_negative
    THEN bigint_vec(lhs.is_negative, add_vec(lhs.vec, rhs.vec))
    ELSE IF abs_compare(lhs.vec, rhs.vec) >= 0
    THEN bigint_vec(lhs.is_negative, subtract_vec(lhs.vec, rhs.vec))
    ELSE bigint_vec(~lhs.is_negative, subtract_vec(rhs.vec, lhs.vec))

op_neg(lhs) == bigint_vec(~lhs.is_negative, lhs.vec)

(***************************************************************************)
(* operator*: schoolbook multiplication into a buffer of                   *)
(* vec.size() + rhs.vec.size() zeros.  oob records a write at an index     *)
(* past the end of the buffer.                                             *)
(***************************************************************************)
Zeros(n) == [k \in 1..n |-> 0]

\* A variant of mul_inner that stops after the last digit of b and drops
\* the carry.
RECURSIVE mul_inner_DropCarry(_, _, _, _, _, _)
mul_inner_DropCarry(st, a, b, i, j, carry) ==
    IF j < Len(b)
    THEN LET current == st.product[i + j + 1] + a[i + 1] * b[j + 1] + carry
         IN  mul_inner_DropCarry([st EXCEPT !.product[i + j + 1] = current % 10],
                                 a, b, i, j + 1, (current \div 10) % 256)
    ELSE st

\* The inner loop for digit i of a, from index j (0-based) with the carry.
RECURSIVE mul_inner(_, _, _, _, _, _)
mul_inner(st, a, b, i, j, carry) ==
    IF j < Len(b) \/ carry # 0
    THEN IF i + j >= Len(st.product)
         THEN [st EXCEPT !.oob = TRUE]
         ELSE LET current == st.product[i + j + 1]
                             + a[i + 1] * (IF j < Len(b) THEN b[j + 1] ELSE 0)
                             + carry
              IN  mul_inner([st EXCEPT !.product[i + j + 1] = current % 10],
                            a, b, i, j + 1, (current \div 10) % 256)
    ELSE st

\* The outer loop from index i (0-based).
RECURSIVE mul_outer(_, _, _, _)
mul_outer(st, a, b, i) ==
    IF i < Len(a) /\ ~st.oob
    THEN mul_outer(mul_inner(st, a, b, i, 0, 0), a, b, i + 1)
    ELSE st

\* A product buffer one digit short.
mul_product_ShortBuffer(a, b) ==
    mul_outer([product |-> Zeros(Len(a) + Len(b) - 1), oob |-> FALSE], a, b, 0)

mul_product(a, b) ==
    mul_outer([product |-> Zeros(Len(a) + Len(b)), oob |-> FALSE], a, b, 0)

\* A variant of operator* that gives the product the sign of the left
\* operand.
op_mul_LeftSign(lhs, rhs) ==
    bigint_vec(lhs.is_negative, mul_product(lhs.vec, rhs.vec).product)

op_mul(lhs, rhs) ==
    bigint_vec(lhs.is_negative # rhs.is_negative, mul_product(lhs.vec, rhs.vec).product)

(***************************************************************************)
(* operator/ and operator%: long division by repeated subtraction.         *)
(***************************************************************************)
Reverse(s) == [k \in 1..Len(s) |-> s[Len(s) + 1 - k]]

\* The digit brought down without the trim.
bring_down_NoTrim(current, digit) == [current EXCEPT !.vec = <<digit>> \o current.vec]

\* current.vec.insert(current.vec.begin(), digit); current.trim();
bring_down(current, digit) == trim([current EXCEPT !.vec = <<digit>> \o current.vec])

\* A loop that subtracts the divisor at most once.
sub_loop_Once(current, divisor, count) ==
    IF op_ge(current, divisor)
    THEN [hang |-> FALSE, current |-> op_sub(current, divisor),
          count |-> (count + 1) % 256]
    ELSE [hang |-> FALSE, current |-> current, count |-> count]

\* while (current >= divisor) { current -= divisor; ++count; } with count a
\* uint8_t.  The loop never ends when a subtraction leaves current as it was.
RECURSIVE sub_loop(_, _, _)
sub_loop(current, divisor, count) ==
    IF op_ge(current, divisor)
    THEN LET next == op_sub(current, divisor)
         IN  IF next = current
             THEN [hang |-> TRUE, current |-> current, count |-> count]
             ELSE sub_loop(next, divisor, (count + 1) % 256)
    ELSE [hang |-> FALSE, current |-> current, count |-> count]

\* The for loop of operator/ from index i (1-based) down to 1.
RECURSIVE div_loop(_, _, _, _, _)
div_loop(dividend, divisor, i, current, quotient) ==
    IF i = 0
    THEN [hang |-> FALSE, current |-> current, quotient |-> quotient]
    ELSE LET r == sub_loop(bring_down(current, dividend[i]), divisor, 0)
         IN  IF r.hang
             THEN [hang |-> TRUE, current |-> r.current, quotient |-> quotient]
             ELSE div_loop(dividend, divisor, i - 1, r.current,
                           Append(quotient, r.count))

\* A variant of operator/ that gives the quotient the sign of the dividend.
op_div_DividendSign(lhs, rhs) ==
    IF op_eq(rhs, bigint_int(0)) THEN Throw("Division by zero")
    ELSE LET dividend == [lhs EXCEPT !.is_negative = FALSE]
             divisor  == [rhs EXCEPT !.is_negative = FALSE]
         IN  IF abs_compare(dividend.vec, divisor.vec) < 0 THEN Ok(bigint_int(0))
             ELSE LET r == div_loop(dividend.vec, divisor, Len(dividend.vec),
                                    bigint_int(0), <<>>)
                  IN  IF r.hang THEN Hang
                      ELSE Ok(bigint_vec(lhs.is_negative, Reverse(r.quotient)))

op_div(lhs, rhs) ==
    IF op_eq(rhs, bigint_int(0)) THEN Throw("Division by zero")
    ELSE LET dividend == [lhs EXCEPT !.is_negative = FALSE]
             divisor  == [rhs EXCEPT !.is_negative = FALSE]
         IN  IF abs_compare(dividend.vec, divisor.vec) < 0 THEN Ok(bigint_int(0))
             ELSE LET r == div_loop(dividend.vec, divisor, Len(dividend.vec),
                                    bigint_int(0), <<>>)
                  IN  IF r.hang THEN Hang
                      ELSE Ok(bigint_vec(lhs.is_negative # rhs.is_negative,
                                         Reverse(r.quotient)))

\* The for loop of operator% from index i (1-based) down to 1.
RECURSIVE mod_loop(_, _, _, _)
mod_loop(dividend, divisor, i, current) ==
    IF i = 0
    THEN [hang |-> FALSE, current |-> current]
    ELSE LET r == sub_loop(bring_down(current, dividend[i]), divisor, 0)
         IN  IF r.hang
             THEN [hang |-> TRUE, current |-> r.current]
             ELSE mod_loop(dividend, divisor, i - 1, r.current)

op_mod(lhs, rhs) ==
    IF op_eq(rhs, bigint_int(0)) THEN Throw("Modulus by zero")
    ELSE LET dividend == [lhs EXCEPT !.is_negative = FALSE]
             divisor  == [rhs EXCEPT !.is_negative = FALSE]
         IN  IF op_lt(dividend, divisor) THEN Ok(lhs)
             ELSE LET r == mod_loop(dividend.vec, divisor, Len(dividend.vec),
                                    bigint_int(0))
                      signed == [r.current EXCEPT !.is_negative = lhs.is_negative]
                  IN  IF r.hang THEN Hang
                      ELSE IF op_eq(signed, bigint_int(0))
                      THEN Ok([signed EXCEPT !.is_negative = FALSE])
                      ELSE Ok(signed)

(***************************************************************************)
(* bigint(const std::string&) and operator<<.                              *)
(***************************************************************************)
\* The validation loop, from i = str.size() down to index + 1: each
\* character must be a digit and is pushed as str[i - 1] - '0'.
RECURSIVE str_loop(_, _, _, _)
str_loop(str, i, index, vec) ==
    IF i > index
    THEN IF ~isdigit(str[i])
         THEN [bad |-> TRUE, vec |-> vec]
         ELSE str_loop(str, i - 1, index, Append(vec, str[i] - CH_ZERO))
    ELSE [bad |-> FALSE, vec |-> vec]

\* A variant of the string constructor that does not trim.
bigint_str_NoTrim(str) ==
    IF Len(str) = 0 THEN Throw("String cannot be empty!")
    ELSE LET neg   == str[1] = CH_MINUS
             index == IF neg THEN 1 ELSE 0
             r     == str_loop(str, Len(str), index, <<>>)
         IN  IF r.bad THEN Throw("Invalid character in string!")
             ELSE Ok([is_negative |-> neg, vec |-> r.vec])

bigint_str(str) ==
    IF Len(str) = 0 THEN Throw("String cannot be empty!")
    ELSE LET neg   == str[1] = CH_MINUS
             index == IF neg THEN 1 ELSE 0
             r     == str_loop(str, Len(str), index, <<>>)
         IN  IF r.bad THEN Throw("Invalid character in string!")
             ELSE Ok(trim([is_negative |-> neg, vec |-> r.vec]))

\* operator<<: '-' when negative, then the digits from the most significant.
to_stream(num) ==
    (IF num.is_negative THEN <<CH_MINUS>> ELSE <<>>)
    \o [k \in 1..Len(num.vec) |-> CH_ZERO + num.vec[Len(num.vec) + 1 - k]]

(***************************************************************************)
(* Reference notions used to state the properties: the integer a bigint    *)
(* stands for, and the canonical form of section 3 of the specification.   *)
(***************************************************************************)
\* The number a digit vector stands for, least-significant digit first.
RECURSIVE Mag(_)
Mag(v) == IF Len(v) = 0 THEN 0 ELSE v[1] + 10 * Mag(Tail(v))

Value(n) == IF n.is_negative THEN -Mag(n.vec) ELSE Mag(n.vec)

\* Non-empty, digits 0..9, no most-significant zero but the single digit 0,
\* and zero positive.
Canonical(n) ==
    /\ Len(n.vec) >= 1
    /\ \A k \in 1..Len(n.vec) : n.vec[k] \in 0..9
    /\ Len(n.vec) > 1 => n.vec[Len(n.vec)] # 0
    /\ n.vec = <<0>> => ~n.is_negative

(***************************************************************************)
(* The caller: two bigint variables x and y, the last call made (call)     *)
(* and what it returned (res).                                             *)
(***************************************************************************)
VARIABLES x, y, call, res

vars == <<x, y, call, res>>

\* A register holds a value of magnitude at most MaxMag.
Fits(v) == Mag(v.vec) <= MaxMag

\* The operand pairs of a binary call, and where its result goes: into x or
\* y (d = a op b, and a op= b when d is a) or into a temporary.
Pairs == {<<x, y>>, <<y, x>>, <<x, x>>}
Dst == {"x", "y", "tmp"}

\* A variant of Put that writes the value into both objects.
Put_Both(d, v) ==
    /\ x' = v
    /\ y' = v

\* The effect of storing v into register d.
Put(d, v) ==
    /\ x' = IF d = "x" THEN v ELSE x
    /\ y' = IF d = "y" THEN v ELSE y

\* A call that has returned out; a value it returned is stored into d.  A
\* call that threw or never returned stores nothing.
Return(c, out, d) ==
    /\ call' = c
    /\ res' = out
    /\ IF out.kind = "ok" /\ d # "tmp"
       THEN Fits(out.val) /\ Put(d, out.val)
       ELSE UNCHANGED <<x, y>>

\* No call follows one that never returns.
Running == res.kind # "hang"

Init ==
    /\ x = bigint_default
    /\ y = bigint_default
    /\ call = [op |-> "init"]
    /\ res = Ok(bigint_default)

Default ==
    /\ Running
    /\ \E d \in {"x", "y"} : Return([op |-> "default"], Ok(bigint_default), d)

FromInt ==
    /\ Running
    /\ \E d \in {"x", "y"}, n \in -MaxMag..MaxMag :
          Return([op |-> "int", n |-> n], Ok(bigint_int(n)), d)

\* The strings a sequence of calls constructs from: '-', '0', '1', 'a'.
CallAlphabet == {45, 48, 49, 97}
CallStrings == UNION {[1..n -> CallAlphabet] : n \in 0..MaxCallStrLen}

FromString ==
    /\ Running
    /\ \E d \in {"x", "y"}, s \in CallStrings :
          Return([op |-> "str", s |-> s], bigint_str(s), d)

Add ==
    /\ Running
    /\ \E p \in Pairs, d \in Dst :
          Return([op |-> "add", a |-> p[1], b |-> p[2]], Ok(op_add(p[1], p[2])), d)

Sub ==
    /\ Running
    /\ \E p \in Pairs, d \in Dst :
          Return([op |-> "sub", a |-> p[1], b |-> p[2]], Ok(op_sub(p[1], p[2])), d)

Mul ==
    /\ Running
    /\ \E p \in Pairs, d \in Dst :
          Return([op |-> "mul", a |-> p[1], b |-> p[2]], Ok(op_mul(p[1], p[2])), d)

Div ==
    /\ Running
    /\ \E p \in Pairs, d \in Dst :
          Return([op |-> "div", a |-> p[1], b |-> p[2]], op_div(p[1], p[2]), d)

Mod ==
    /\ Running
    /\ \E p \in Pairs, d \in Dst :
          Return([op |-> "mod", a |-> p[1], b |-> p[2]], op_mod(p[1], p[2]), d)

Neg ==
    /\ Running
    /\ \E a \in {x, y}, d \in Dst :
          Return([op |-> "neg", a |-> a], Ok(op_neg(a)), d)

\* ++x and x++: *this = *this + 1; the first returns the new value, the
\* second the copy taken before.
PreInc ==
    /\ Running
    /\ \E d \in {"x", "y"} :
          LET old == IF d = "x" THEN x ELSE y
              new == op_add(old, bigint_int(1))
          IN  /\ Fits(new)
              /\ Put(d, new)
              /\ call' = [op |-> "preinc", a |-> old, d |-> d]
              /\ res' = Ok(new)

PostInc ==
    /\ Running
    /\ \E d \in {"x", "y"} :
          LET old == IF d = "x" THEN x ELSE y
              new == op_add(old, bigint_int(1))
          IN  /\ Fits(new)
              /\ Put(d, new)
              /\ call' = [op |-> "postinc", a |-> old, d |-> d]
              /\ res' = Ok(old)

PreDec ==
    /\ Running
    /\ \E d \in {"x", "y"} :
          LET old == IF d = "x" THEN x ELSE y
              new == op_sub(old, bigint_int(1))
          IN  /\ Fits(new)
              /\ Put(d, new)
              /\ call' = [op |-> "predec", a |-> old, d |-> d]
              /\ res' = Ok(new)

PostDec ==
    /\ Running
    /\ \E d \in {"x", "y"} :
          LET old == IF d = "x" THEN x ELSE y
              new == op_sub(old, bigint_int(1))
          IN  /\ Fits(new)
              /\ Put(d, new)
              /\ call' = [op |-> "postdec", a |-> old, d |-> d]
              /\ res' = Ok(old)

Next ==
    \/ Default
    \/ FromInt
    \/ FromString
    \/ Add
    \/ Sub
    \/ Mul
    \/ Div
    \/ Mod
    \/ Neg
    \/ PreInc
    \/ PostInc
    \/ PreDec
    \/ PostDec

Spec == Init /\ [][Next]_vars

(***************************************************************************)
(* The operators on their own: x and y are drawn from the values of        *)
(* magnitude at most MaxOperand and from the three values outside the      *)
(* canonical form that a sequence of calls can produce (bigint("-"), its   *)
(* negation, and the zero remainder of a negative dividend); each action   *)
(* applies one operator to the pair (x, y) drawn and leaves its result in  *)
(* res.                                                                    *)
(***************************************************************************)
NonCanonical ==
    { [is_negative |-> TRUE,  vec |-> <<>>],
      [is_negative |-> FALSE, vec |-> <<>>],
      [is_negative |-> TRUE,  vec |-> <<0>>] }

Operands == {bigint_int(n) : n \in -MaxOperand..MaxOperand} \cup NonCanonical

InitPure ==
    /\ x \in Operands
    /\ y \in Operands
    /\ call = [op |-> "init"]
    /\ res = Ok(bigint_default)

PureCompare ==
    /\ call.op = "init"
    /\ Return([op |-> "compare", a |-> x, b |-> y],
              Ok([eq |-> op_eq(x, y), ne |-> op_ne(x, y), lt |-> op_lt(x, y),
                  le |-> op_le(x, y), gt |-> op_gt(x, y), ge |-> op_ge(x, y)]),
              "tmp")

PureAdd ==
    /\ call.op = "init"
    /\ Return([op |-> "add", a |-> x, b |-> y], Ok(op_add(x, y)), "tmp")

PureSub ==
    /\ call.op = "init"
    /\ Return([op |-> "sub", a |-> x, b |-> y], Ok(op_sub(x, y)), "tmp")

PureMul ==
    /\ call.op = "init"
    /\ Return([op |-> "mul", a |-> x, b |-> y], Ok(op_mul(x, y)), "tmp")

PureDiv ==
    /\ call.op = "init"
    /\ Return([op |-> "div", a |-> x, b |-> y], op_div(x, y), "tmp")

PureMod ==
    /\ call.op = "init"
    /\ Return([op |-> "mod", a |-> x, b |-> y], op_mod(x, y), "tmp")

NextPure ==
    \/ PureCompare
    \/ PureAdd
    \/ PureSub
    \/ PureMul
    \/ PureDiv
    \/ PureMod

PureSpec == InitPure /\ [][NextPure]_vars

(***************************************************************************)
(* The decimal-string constructor and operator<< on their own: a string    *)
(* of at most MaxStrLen characters is parsed into x, and x is printed.     *)
(***************************************************************************)
Strings == UNION {[1..n -> Alphabet] : n \in 0..MaxStrLen}

InitStr ==
    /\ x = bigint_default
    /\ y = bigint_default
    /\ call \in {[op |-> "input", s |-> s] : s \in Strings}
    /\ res = Ok(bigint_default)

\* bigint x(s);
Parse ==
    /\ call.op = "input"
    /\ call' = [op |-> "str", s |-> call.s]
    /\ res' = bigint_str(call.s)
    /\ x' = IF res'.kind = "ok" THEN res'.val ELSE x
    /\ y' = y

\* out << x;
Insert ==
    /\ call.op = "str"
    /\ res.kind = "ok"
    /\ call' = [op |-> "print", s |-> call.s]
    /\ res' = Ok(to_stream(x))
    /\ UNCHANGED <<x, y>>

NextStr ==
    \/ Parse
    \/ Insert

StrSpec == InitStr /\ [][NextStr]_vars

(***************************************************************************)
(* 64-bit integers.  A magnitude below 10^20 is a sequence of five limbs   *)
(* in base 10^4, least significant first, so that the full range of        *)
(* int64_t and uint64_t is represented exactly.                            *)
(***************************************************************************)
Limb == 10 ^ 4

\* The magnitude of a natural number below Limb^2.
WideOf(n) == <<n % Limb, n \div Limb, 0, 0, 0>>

\* 2^64, 2^63 and 2^63 - 1.
TWO64 == <<1616, 955, 737, 6744, 1844>>

TWO63 == <<5808, 5477, 368, 3372, 922>>

INT64_MAX == <<5807, 5477, 368, 3372, 922>>

NLimbs == Len(TWO64)

\* a < b, comparing from limb k down.
RECURSIVE wide_less_from(_, _, _)
wide_less_from(a, b, k) ==
    IF k = 0 THEN FALSE
    ELSE IF a[k] # b[k] THEN a[k] < b[k]
    ELSE wide_less_from(a, b, k - 1)

WideLess(a, b) == wide_less_from(a, b, NLimbs)

\* a - b for a >= b, from limb k up with a borrow.
RECURSIVE wide_sub_from(_, _, _, _)
wide_sub_from(a, b, k, borrow) ==
    IF k > NLimbs THEN <<>>
    ELSE LET d == a[k] - b[k] - borrow
         IN  IF d < 0
             THEN <<d + Limb>> \o wide_sub_from(a, b, k + 1, 1)
             ELSE <<d>> \o wide_sub_from(a, b, k + 1, 0)

WideSub(a, b) == wide_sub_from(a, b, 1, 0)

\* a / 10, from limb k down with the remainder carried into the next limb.
RECURSIVE wide_div10_from(_, _, _)
wide_div10_from(a, k, carry) ==
    IF k = 0 THEN <<>>
    ELSE LET cur == carry * Limb + a[k]
         IN  wide_div10_from(a, k - 1, cur % 10) \o <<cur \div 10>>

WideDiv10(a) == wide_div10_from(a, NLimbs, 0)

WideMod10(a) == a[1] % 10

WideIsZero(a) == \A k \in 1..NLimbs : a[k] = 0

\* The conversion of an int argument to a uint64_t parameter: n modulo 2^64.
uint64_of_int(n) == IF n >= 0 THEN WideOf(n) ELSE WideSub(TWO64, WideOf(-n))

(***************************************************************************)
(* divide_by_base and to_string(base).                                     *)
(***************************************************************************)
\* The digit characters "0123456789ABCDEFGHIJKLMNOPQRSTUVWXYZ".
digits ==
    <<48, 49, 50, 51, 52, 53, 54, 55, 56, 57,
      65, 66, 67, 68, 69, 70, 71, 72, 73, 74, 75, 76, 77,
      78, 79, 80, 81, 82, 83, 84, 85, 86, 87, 88, 89, 90>>

\* The loop of divide_by_base from index i (1-based) down: st holds the
\* quotient digits written so far and the carry.
RECURSIVE divide_loop(_, _, _, _)
divide_loop(vec, base, i, st) ==
    IF i > 0
    THEN LET carry == st.carry * 10 + vec[i]
         IN  divide_loop(vec, base, i - 1,
                         [vec   |-> [st.vec EXCEPT ![i] = (carry \div base) % 256],
                          carry |-> carry % base])
    ELSE st

\* The quotient returned and the remainder stored through the reference;
\* base is a value in 2..36 here.
divide_by_base(num, base) ==
    LET r == divide_loop(num.vec, base, Len(num.vec),
                         [vec |-> Zeros(Len(num.vec)), carry |-> 0])
    IN  [quotient  |-> trim([is_negative |-> FALSE, vec |-> r.vec]),
         remainder |-> bigint_int(r.carry)]

\* The while loop of to_string: the characters in the order they are pushed.
RECURSIVE to_string_loop(_, _, _)
to_string_loop(temp, base, result) ==
    IF ~(Len(temp.vec) = 1 /\ temp.vec[1] = 0)
    THEN LET d == divide_by_base(temp, base)
             rem_value == d.remainder.vec[1]
         IN  to_string_loop(d.quotient, base, Append(result, digits[rem_value + 1]))
    ELSE result

\* to_string(uint64_t base): base is the 64-bit value received.
to_string(num, base) ==
    IF WideLess(base, WideOf(2)) \/ WideLess(WideOf(36), base)
    THEN Throw("Base must be between 2 and 36.")
    ELSE IF Len(num.vec) = 0 \/ (Len(num.vec) = 1 /\ num.vec[1] = 0)
    THEN Ok(<<CH_ZERO>>)
    ELSE LET result == Reverse(to_string_loop([num EXCEPT !.is_negative = FALSE],
                                              base[1], <<>>))
         IN  Ok(IF num.is_negative THEN <<CH_MINUS>> \o result ELSE result)

(***************************************************************************)
(* bigint(const std::string &, int base).                                  *)
(***************************************************************************)
CH_UPPER_A == 65

CH_UPPER_Z == 90

CH_LOWER_A == 97

CH_LOWER_Z == 122

\* The digit value of a character, or -1 where the constructor throws.
digit_of(c) ==
    IF CH_ZERO <= c /\ c <= CH_NINE THEN c - CH_ZERO
    ELSE IF CH_UPPER_A <= c /\ c <= CH_UPPER_Z THEN c - CH_UPPER_A + 10
    ELSE IF CH_LOWER_A <= c /\ c <= CH_LOWER_Z THEN c - CH_LOWER_A + 10
    ELSE -1

\* A variant of base_step that leaves out *this *= base.
base_step_NoScale(acc, base, digit) == op_add(acc, bigint_int(digit))

\* *this *= base; *this += digit;
base_step(acc, base, digit) ==
    op_add(op_mul(acc, bigint_int(base)), bigint_int(digit))

\* A variant of base_loop without the test digit >= base.
RECURSIVE base_loop_NoRangeCheck(_, _, _, _)
base_loop_NoRangeCheck(str, base, i, acc) ==
    IF i <= Len(str)
    THEN LET digit == digit_of(str[i])
         IN  IF digit = -1
             THEN Throw("Invalid character in string for the given base.")
             ELSE base_loop_NoRangeCheck(str, base, i + 1, base_step(acc, base, digit))
    ELSE Ok(acc)

\* The for loop from index i (1-based) with *this = acc.
RECURSIVE base_loop(_, _, _, _)
base_loop(str, base, i, acc) ==
    IF i <= Len(str)
    THEN LET digit == digit_of(str[i])
         IN  IF digit = -1
             THEN Throw("Invalid character in string for the given base.")
             ELSE IF digit >= base
             THEN Throw("Invalid character in string for the given base.")
             ELSE base_loop(str, base, i + 1, base_step(acc, base, digit))
    ELSE Ok(acc)

\* A variant of bigint_base that accepts base 1.
bigint_base_AcceptsBaseOne(str, base) ==
    IF base < 1 \/ base > 36
    THEN Throw("Base must be between 2 and 36.")
    ELSE LET negation == Len(str) > 0 /\ str[1] = CH_MINUS
             r == base_loop(str, base, IF negation THEN 2 ELSE 1, bigint_int(0))
         IN  IF r.kind = "ok" /\ negation THEN Ok(op_neg(r.val)) ELSE r

\* str[0] of an empty string is the terminating '\0', which is not '-'.
bigint_base(str, base) ==
    IF base < 2 \/ base > 36
    THEN Throw("Base must be between 2 and 36.")
    ELSE LET negation == Len(str) > 0 /\ str[1] = CH_MINUS
             r == base_loop(str, base, IF negation THEN 2 ELSE 1, bigint_int(0))
         IN  IF r.kind = "ok" /\ negation THEN Ok(op_neg(r.val)) ELSE r

(***************************************************************************)
(* to_string(base) on its own, and the string it returns read back by the  *)
(* (string, base) constructor in the same base.                            *)
(***************************************************************************)
MaxBaseVal == 260

\* The values built by bigint(int64_t).
BaseOperands == {bigint_int(n) : n \in -MaxBaseVal..MaxBaseVal}

\* The int arguments passed for the base.
BaseArgs == -2..38

InitToStr ==
    /\ x \in BaseOperands
    /\ y = bigint_default
    /\ call = [op |-> "init"]
    /\ res = Ok(bigint_default)

\* x.to_string(b)
ToString ==
    /\ call.op = "init"
    /\ \E b \in BaseArgs :
          /\ call' = [op |-> "to_string", a |-> x, base |-> b]
          /\ res' = to_string(x, uint64_of_int(b))
    /\ UNCHANGED <<x, y>>

\* bigint y(x.to_string(b), b);
Reparse ==
    /\ call.op = "to_string"
    /\ res.kind = "ok"
    /\ call' = [op |-> "reparse", a |-> call.a, base |-> call.base, s |-> res.val]
    /\ res' = bigint_base(res.val, call.base)
    /\ y' = IF res'.kind = "ok" THEN res'.val ELSE y
    /\ x' = x

NextToStr ==
    \/ ToString
    \/ Reparse

ToStrSpec == InitToStr /\ [][NextToStr]_vars

(***************************************************************************)
(* The string constructors on their own: a string of at most               *)
(* MaxBaseStrLen characters is passed with a base to the (string, base)    *)
(* constructor, or alone to the decimal constructor, and a value           *)
(* constructed with a base is converted back by to_string.                 *)
(***************************************************************************)
MaxBaseStrLen == 3

\* '-', '0', '1', '9', 'A', 'F', 'G', 'Z', 'a'.
BaseAlphabet == {45, 48, 49, 57, 65, 70, 71, 90, 97}

BaseStrings == UNION {[1..n -> BaseAlphabet] : n \in 0..MaxBaseStrLen}

\* The bases passed to the constructor: the limits 2 and 36, their
\* neighbours, and the values around the digit values of BaseAlphabet.
CtorBases == {-1, 0, 1, 2, 3, 9, 10, 11, 15, 16, 17, 35, 36, 37}

\* The arguments of a construction: every string with a base of CtorBases,
\* and the strings of at most one character with every base of BaseArgs.
CtorInputs ==
    {[op |-> "input", s |-> s, base |-> b] : s \in BaseStrings, b \in CtorBases}
    \cup {[op |-> "input", s |-> s, base |-> b] :
             s \in {t \in BaseStrings : Len(t) <= 1}, b \in BaseArgs}

InitBaseStr ==
    /\ x = bigint_default
    /\ y = bigint_default
    /\ call \in CtorInputs
    /\ res = Ok(bigint_default)

\* bigint x(s, base);
ConstructBase ==
    /\ call.op = "input"
    /\ call' = [op |-> "base", s |-> call.s, base |-> call.base]
    /\ res' = bigint_base(call.s, call.base)
    /\ x' = IF res'.kind = "ok" THEN res'.val ELSE x
    /\ y' = y

\* bigint x(s);
ConstructDecimal ==
    /\ call.op = "input"
    /\ call' = [op |-> "str", s |-> call.s]
    /\ res' = bigint_str(call.s)
    /\ x' = IF res'.kind = "ok" THEN res'.val ELSE x
    /\ y' = y

\* x.to_string(b) on the value constructed.
ToStringBase ==
    /\ call.op = "base"
    /\ res.kind = "ok"
    /\ \E b \in CtorBases :
          /\ call' = [op |-> "to_string", a |-> x, base |-> b]
          /\ res' = to_string(x, uint64_of_int(b))
    /\ UNCHANGED <<x, y>>

NextBaseStr ==
    \/ ConstructBase
    \/ ConstructDecimal
    \/ ToStringBase

BaseStrSpec == InitBaseStr /\ [][NextBaseStr]_vars

(***************************************************************************)
(* bigint(int64_t) over the whole range of int64_t.  An int64_t is a sign  *)
(* and a magnitude of at most 2^63 when negative and 2^63 - 1 otherwise.   *)
(***************************************************************************)
Trap == [kind |-> "trap"]

\* The while loop: num % 10 is pushed and num /= 10 until num is 0.
RECURSIVE int64_digits(_, _)
int64_digits(num, vec) ==
    IF ~WideIsZero(num)
    THEN int64_digits(WideDiv10(num), Append(vec, WideMod10(num)))
    ELSE vec

\* The outcomes of bigint(num).  For num = INT64_MIN, num = -num overflows,
\* which is undefined: the build either leaves num at INT64_MIN (neither
\* branch after it runs and vec stays empty), or computes the digits of
\* 2^63 as if there were no overflow, or traps.
bigint_int64(num) ==
    IF num.neg
    THEN IF num.mag = TWO63
         THEN { Ok([is_negative |-> TRUE, vec |-> <<>>]),
                Ok([is_negative |-> TRUE, vec |-> int64_digits(TWO63, <<>>)]),
                Trap }
         ELSE { Ok([is_negative |-> TRUE, vec |-> int64_digits(num.mag, <<>>)]) }
    ELSE { Ok([is_negative |-> FALSE,
               vec |-> int64_digits(num.mag, IF WideIsZero(num.mag) THEN <<0>> ELSE <<>>)]) }

MaxInt64Small == 120

MaxInt64Edge == 20

\* The magnitudes Limb^k and Limb^k - 1, where a limb boundary is crossed.
LimbEdges ==
    {[j \in 1..NLimbs |-> IF j = k + 1 THEN 1 ELSE 0] : k \in 1..(NLimbs - 1)}
    \cup {[j \in 1..NLimbs |-> IF j <= k THEN Limb - 1 ELSE 0] : k \in 1..(NLimbs - 1)}

\* The arguments of bigint(int64_t): the small values, the values next to
\* the limits of int64_t, the limits themselves, and the limb boundaries.
Int64Inputs ==
    {[neg |-> k < 0, mag |-> WideOf(IF k < 0 THEN -k ELSE k)] :
        k \in -MaxInt64Small..MaxInt64Small}
    \cup {[neg |-> FALSE, mag |-> WideSub(INT64_MAX, WideOf(k))] : k \in 0..MaxInt64Edge}
    \cup {[neg |-> TRUE, mag |-> WideSub(TWO63, WideOf(k))] : k \in 0..MaxInt64Edge}
    \cup {[neg |-> sg, mag |-> m] : sg \in BOOLEAN, m \in LimbEdges}

InitInt ==
    /\ x = bigint_default
    /\ y = bigint_default
    /\ call \in {[op |-> "input", n |-> n] : n \in Int64Inputs}
    /\ res = Ok(bigint_default)

\* bigint x(n);
ConstructInt ==
    /\ call.op = "input"
    /\ call' = [op |-> "int64", n |-> call.n]
    /\ res' \in bigint_int64(call.n)
    /\ x' = IF res'.kind = "ok" THEN res'.val ELSE x
    /\ y' = y

\* out << x;
InsertInt ==
    /\ call.op = "int64"
    /\ res.kind = "ok"
    /\ call' = [op |-> "print", n |-> call.n]
    /\ res' = Ok(to_stream(x))
    /\ UNCHANGED <<x, y>>

NextInt ==
    \/ ConstructInt
    \/ InsertInt

IntSpec == InitInt /\ [][NextInt]_vars

(***************************************************************************)
(* Two objects x and y under every operation, the compound assignments     *)
(* and the copies included.  x and y start as any two values of magnitude  *)
(* at most MaxFrameVal or outside the canonical form; one call is made,    *)
(* or a copy or postfix snapshot is taken into the other object and the    *)
(* object copied from is then mutated.                                     *)
(***************************************************************************)
MaxFrameVal == 12

FrameOperands == {bigint_int(n) : n \in -MaxFrameVal..MaxFrameVal} \cup NonCanonical

Regs == {"x", "y"}

Reg(r) == IF r = "x" THEN x ELSE y

Other(r) == IF r = "x" THEN "y" ELSE "x"

BinOps == {"add", "sub", "mul", "div", "mod"}

\* a bin b
Apply(bin, a, b) ==
    CASE bin = "add" -> Ok(op_add(a, b))
      [] bin = "sub" -> Ok(op_sub(a, b))
      [] bin = "mul" -> Ok(op_mul(a, b))
      [] bin = "div" -> op_div(a, b)
      [] bin = "mod" -> op_mod(a, b)

\* A variant of Assign that leaves a zero in the receiver of a call that
\* threw.
Assign_ZeroOnThrow(d, out) ==
    IF out.kind = "ok" THEN Put(d, out.val)
    ELSE IF out.kind = "throw" THEN Put(d, bigint_default)
    ELSE UNCHANGED <<x, y>>

\* *this = <value returned>: nothing is assigned when the call on the right
\* threw or never returned.
Assign(d, out) ==
    IF out.kind = "ok" THEN Put(d, out.val) ELSE UNCHANGED <<x, y>>

\* A variant of postfix_result that returns the object itself.
postfix_result_Aliased(old, new) == new

\* bigint temp = *this; ...; return temp;
postfix_result(old, new) == old

InitFrame ==
    /\ x \in FrameOperands
    /\ y \in FrameOperands
    /\ call = [op |-> "init"]
    /\ res = Ok(bigint_default)

\* No call was made yet.
Fresh == call.op = "init"

\* No call was made yet, or the last call left a copy or a snapshot of the
\* object ra in the other object.
MayMutate(ra) ==
    \/ Fresh
    \/ call.op = "copy" /\ call.ra = ra
    \/ call.op = "postfix" /\ call.ra = ra /\ call.keep

\* a bin= b, where b may be a itself; snap records that the other object
\* holds a copy or a snapshot of a.
CompoundAssign ==
    \E bin \in BinOps, ra \in Regs, rb \in Regs :
       /\ MayMutate(ra)
       /\ call' = [op |-> "compound", bin |-> bin, ra |-> ra, rb |-> rb,
                   snap |-> ~Fresh]
       /\ res' = Apply(bin, Reg(ra), Reg(rb))
       /\ Assign(ra, res')

\* a bin b, the result going to a temporary.
Binary ==
    \E bin \in BinOps, ra \in Regs, rb \in Regs :
       /\ Fresh
       /\ call' = [op |-> "binary", bin |-> bin, ra |-> ra, rb |-> rb]
       /\ res' = Apply(bin, Reg(ra), Reg(rb))
       /\ UNCHANGED <<x, y>>

\* -a
Negate ==
    \E ra \in Regs :
       /\ Fresh
       /\ call' = [op |-> "negate", ra |-> ra]
       /\ res' = Ok(op_neg(Reg(ra)))
       /\ UNCHANGED <<x, y>>

\* a == b, a != b, a < b, a <= b, a > b, a >= b
Compare ==
    \E ra \in Regs, rb \in Regs :
       /\ Fresh
       /\ call' = [op |-> "compare", ra |-> ra, rb |-> rb]
       /\ res' = Ok([eq |-> op_eq(Reg(ra), Reg(rb)), ne |-> op_ne(Reg(ra), Reg(rb)),
                     lt |-> op_lt(Reg(ra), Reg(rb)), le |-> op_le(Reg(ra), Reg(rb)),
                     gt |-> op_gt(Reg(ra), Reg(rb)), ge |-> op_ge(Reg(ra), Reg(rb))])
       /\ UNCHANGED <<x, y>>

\* out << a
Output ==
    \E ra \in Regs :
       /\ Fresh
       /\ call' = [op |-> "output", ra |-> ra]
       /\ res' = Ok(to_stream(Reg(ra)))
       /\ UNCHANGED <<x, y>>

\* The bases passed to to_string and to the (string, base) constructor.
FrameBases == {1, 8, 16}

\* a.to_string(base)
ToStringOf ==
    \E ra \in Regs, base \in FrameBases :
       /\ Fresh
       /\ call' = [op |-> "to_string", ra |-> ra, base |-> base]
       /\ res' = to_string(Reg(ra), uint64_of_int(base))
       /\ UNCHANGED <<x, y>>

\* bigint b = a;
Copy ==
    \E ra \in Regs :
       /\ Fresh
       /\ call' = [op |-> "copy", ra |-> ra]
       /\ res' = Ok(Reg(ra))
       /\ Put(Other(ra), Reg(ra))

\* ++a and --a
Prefix ==
    \E ra \in Regs, f \in {"inc", "dec"} :
       LET new == IF f = "inc" THEN op_add(Reg(ra), bigint_int(1))
                  ELSE op_sub(Reg(ra), bigint_int(1))
       IN  /\ MayMutate(ra)
           /\ call' = [op |-> "prefix", f |-> f, ra |-> ra, snap |-> ~Fresh]
           /\ res' = Ok(new)
           /\ Put(ra, new)

\* a++ and a--; with keep the value returned is stored in the other object
\* (bigint b = a++;).
Postfix ==
    \E ra \in Regs, f \in {"inc", "dec"}, keep \in BOOLEAN :
       LET old == Reg(ra)
           new == IF f = "inc" THEN op_add(old, bigint_int(1))
                  ELSE op_sub(old, bigint_int(1))
           temp == postfix_result(old, new)
       IN  /\ IF keep THEN Fresh ELSE MayMutate(ra)
           /\ call' = [op |-> "postfix", f |-> f, ra |-> ra, keep |-> keep,
                       snap |-> ~Fresh]
           /\ res' = Ok(temp)
           /\ IF ra = "x"
              THEN x' = new /\ y' = IF keep THEN temp ELSE y
              ELSE y' = new /\ x' = IF keep THEN temp ELSE x

\* "", "-", "7", "-7", "a", "7a".
FrameStrings == {<<>>, <<45>>, <<55>>, <<45, 55>>, <<97>>, <<55, 97>>}

\* a = bigint(s); and a = bigint(s, base);
Construct ==
    \E ra \in Regs, s \in FrameStrings, base \in FrameBases \cup {10} :
       /\ Fresh
       /\ call' = [op |-> "construct", ra |-> ra, s |-> s, base |-> base]
       /\ res' = IF base = 10 THEN bigint_str(s) ELSE bigint_base(s, base)
       /\ Assign(ra, res')

NextFrame ==
    \/ CompoundAssign
    \/ Binary
    \/ Negate
    \/ Compare
    \/ Output
    \/ ToStringOf
    \/ Copy
    \/ Prefix
    \/ Postfix
    \/ Construct

FrameSpec == InitFrame /\ [][NextFrame]_vars

(***************************************************************************)
(* Products and sums of three values a, b and c: x and y hold a and b, and *)
(* c is the third argument of the call.                                    *)
(***************************************************************************)
MaxAlgVal == 12

\* The small values, some values of two and three digits, and the values
\* outside the canonical form.
AlgOperands ==
    {bigint_int(n) : n \in -MaxAlgVal..MaxAlgVal}
    \cup {bigint_int(n) : n \in {-999, -100, -99, 99, 100, 999}}
    \cup NonCanonical

InitAlg ==
    /\ x \in AlgOperands
    /\ y \in AlgOperands
    /\ call \in {[op |-> "init", c |-> c] : c \in AlgOperands}
    /\ res = Ok(bigint_default)

\* a * b and b * a
Commute ==
    /\ call.op = "init"
    /\ call' = [op |-> "commute", a |-> x, b |-> y]
    /\ res' = Ok([ab |-> op_mul(x, y), ba |-> op_mul(y, x)])
    /\ UNCHANGED <<x, y>>

\* a * (b + c) and a * b + a * c
Distribute ==
    /\ call.op = "init"
    /\ call' = [op |-> "distribute", a |-> x, b |-> y, c |-> call.c]
    /\ res' = Ok([lhs |-> op_mul(x, op_add(y, call.c)),
                  rhs |-> op_add(op_mul(x, y), op_mul(x, call.c))])
    /\ UNCHANGED <<x, y>>

NextAlg ==
    \/ Commute
    \/ Distribute

AlgSpec == InitAlg /\ [][NextAlg]_vars

(***************************************************************************)
(* The loops of operator/, operator% and to_string one iteration at a      *)
(* time, and the calls of subtract_vec made by operator+ and operator-.    *)
(* call holds the local variables of the call in progress.                 *)
(***************************************************************************)
MaxLoopVal == 12

\* The small values, the values around a change of digit count, and the
\* values outside the canonical form.
LoopOperands ==
    {bigint_int(n) : n \in -MaxLoopVal..MaxLoopVal}
    \cup {bigint_int(n) : n \in {-100, -99, 99, 100}}
    \cup NonCanonical

\* The bases passed to to_string.
LoopBases == {1, 2, 7, 10, 16, 36, 37}

\* The borrow of subtract_vec after the last digit, from index i (0-based).
RECURSIVE borrow_loop(_, _, _, _)
borrow_loop(a, b, i, borrow) ==
    IF i < Len(a)
    THEN LET diff == a[i + 1] - borrow - (IF i < Len(b) THEN b[i + 1] ELSE 0)
         IN  borrow_loop(a, b, i + 1, IF diff < 0 THEN 1 ELSE 0)
    ELSE borrow

\* The arguments operator+ passes to subtract_vec, <<>> when it calls
\* add_vec instead.
add_subtract_args(lhs, rhs) ==
    IF lhs.is_negative = rhs.is_negative THEN <<>>
    ELSE IF abs_compare(lhs.vec, rhs.vec) >= 0 THEN <<lhs.vec, rhs.vec>>
    ELSE <<rhs.vec, lhs.vec>>

\* The arguments operator- passes to subtract_vec, <<>> when it calls
\* add_vec instead.
sub_subtract_args(lhs, rhs) ==
    IF lhs.is_negative # rhs.is_negative THEN <<>>
    ELSE IF abs_compare(lhs.vec, rhs.vec) >= 0 THEN <<lhs.vec, rhs.vec>>
    ELSE <<rhs.vec, lhs.vec>>

InitLoop ==
    /\ x \in LoopOperands
    /\ y \in LoopOperands
    /\ call = [op |-> "init"]
    /\ res = Ok(bigint_default)

\* x + y
SignedAdd ==
    /\ call.op = "init"
    /\ call' = [op |-> "add", a |-> x, b |-> y, sub |-> add_subtract_args(x, y)]
    /\ res' = Ok(op_add(x, y))
    /\ UNCHANGED <<x, y>>

\* x - y
SignedSub ==
    /\ call.op = "init"
    /\ call' = [op |-> "sub", a |-> x, b |-> y, sub |-> sub_subtract_args(x, y)]
    /\ res' = Ok(op_sub(x, y))
    /\ UNCHANGED <<x, y>>

\* x / y and x % y up to the for loop: the zero test, the copies without
\* sign, and the early return for a dividend smaller than the divisor.
DivBegin ==
    /\ call.op = "init"
    /\ \E f \in {"div", "mod"} :
          LET dividend == [x EXCEPT !.is_negative = FALSE]
              divisor  == [y EXCEPT !.is_negative = FALSE]
              done     == [op |-> "done", f |-> f, a |-> x, b |-> y]
          IN  IF op_eq(y, bigint_int(0))
              THEN /\ call' = done
                   /\ res' = Throw(IF f = "div" THEN "Division by zero"
                                   ELSE "Modulus by zero")
              ELSE IF f = "div" /\ abs_compare(dividend.vec, divisor.vec) < 0
              THEN call' = done /\ res' = Ok(bigint_int(0))
              ELSE IF f = "mod" /\ op_lt(dividend, divisor)
              THEN call' = done /\ res' = Ok(x)
              ELSE /\ call' = [op |-> "loop", f |-> f, a |-> x, b |-> y,
                               dividend |-> dividend.vec, divisor |-> divisor,
                               i |-> Len(dividend.vec), current |-> bigint_int(0),
                               count |-> 0, quotient |-> <<>>, pc |-> "for",
                               sub |-> <<>>]
                   /\ res' = res
    /\ UNCHANGED <<x, y>>

\* current.vec.insert(current.vec.begin(), dividend.vec[i - 1]);
\* current.trim(); count = 0;
BringDown ==
    /\ call.op = "loop"
    /\ call.pc = "for"
    /\ call.i > 0
    /\ call' = [call EXCEPT !.current = bring_down(call.current, call.dividend[call.i]),
                            !.count = 0,
                            !.pc = "while"]
    /\ UNCHANGED <<x, y, res>>

\* One iteration of while (current >= divisor): current -= divisor; ++count;
Subtract ==
    /\ call.op = "loop"
    /\ call.pc = "while"
    /\ op_ge(call.current, call.divisor)
    /\ call' = [call EXCEPT !.current = op_sub(call.current, call.divisor),
                            !.count = IF call.f = "div" THEN (call.count + 1) % 256
                                      ELSE call.count,
                            !.sub = sub_subtract_args(call.current, call.divisor)]
    /\ UNCHANGED <<x, y, res>>

\* The while loop is left: quotient.push_back(count); --i;
EndDigit ==
    /\ call.op = "loop"
    /\ call.pc = "while"
    /\ ~op_ge(call.current, call.divisor)
    /\ call' = [call EXCEPT !.quotient = IF call.f = "div"
                                         THEN Append(call.quotient, call.count)
                                         ELSE call.quotient,
                            !.i = call.i - 1,
                            !.pc = "for"]
    /\ UNCHANGED <<x, y, res>>

\* The for loop is left: the quotient is reversed and given its sign, the
\* remainder is given the sign of the dividend.
DivEnd ==
    /\ call.op = "loop"
    /\ call.pc = "for"
    /\ call.i = 0
    /\ call' = [op |-> "done", f |-> call.f, a |-> call.a, b |-> call.b]
    /\ res' = IF call.f = "div"
              THEN Ok(bigint_vec(call.a.is_negative # call.b.is_negative,
                                 Reverse(call.quotient)))
              ELSE LET signed == [call.current EXCEPT
                                     !.is_negative = call.a.is_negative]
                   IN  IF op_eq(signed, bigint_int(0))
                       THEN Ok([signed EXCEPT !.is_negative = FALSE])
                       ELSE Ok(signed)
    /\ UNCHANGED <<x, y>>

\* A call that returned the string s.
OkString(s) == [kind |-> "ok", str |-> s]

\* x.to_string(base) up to the while loop.
ToStringBegin ==
    /\ call.op = "init"
    /\ \E b \in LoopBases :
          LET base == uint64_of_int(b)
              done == [op |-> "done", f |-> "to_string", a |-> x, base |-> b]
          IN  IF WideLess(base, WideOf(2)) \/ WideLess(WideOf(36), base)
              THEN call' = done /\ res' = Throw("Base must be between 2 and 36.")
              ELSE IF Len(x.vec) = 0 \/ (Len(x.vec) = 1 /\ x.vec[1] = 0)
              THEN call' = done /\ res' = OkString(<<CH_ZERO>>)
              ELSE /\ call' = [op |-> "to_string", a |-> x, base |-> b,
                               temp |-> [x EXCEPT !.is_negative = FALSE],
                               result |-> <<>>]
                   /\ res' = res
    /\ UNCHANGED <<x, y>>

\* An iteration that leaves temp and result as they were.
ToStringStep_Stalled ==
    /\ call.op = "to_string"
    /\ ~(Len(call.temp.vec) = 1 /\ call.temp.vec[1] = 0)
    /\ UNCHANGED vars

\* One iteration of the while loop of to_string.
ToStringStep ==
    /\ call.op = "to_string"
    /\ ~(Len(call.temp.vec) = 1 /\ call.temp.vec[1] = 0)
    /\ LET d == divide_by_base(call.temp, call.base)
           rem_value == d.remainder.vec[1]
       IN  call' = [call EXCEPT !.temp = d.quotient,
                                !.result = Append(call.result, digits[rem_value + 1])]
    /\ UNCHANGED <<x, y, res>>

\* The while loop of to_string is left: the string is reversed and signed.
ToStringEnd ==
    /\ call.op = "to_string"
    /\ Len(call.temp.vec) = 1 /\ call.temp.vec[1] = 0
    /\ call' = [op |-> "done", f |-> "to_string", a |-> call.a, base |-> call.base]
    /\ res' = OkString(IF call.a.is_negative THEN <<CH_MINUS>> \o Reverse(call.result)
                       ELSE Reverse(call.result))
    /\ UNCHANGED <<x, y>>

NextLoop ==
    \/ SignedAdd
    \/ SignedSub
    \/ DivBegin
    \/ BringDown
    \/ Subtract
    \/ EndDigit
    \/ DivEnd
    \/ ToStringBegin
    \/ ToStringStep
    \/ ToStringEnd

LoopSpec == InitLoop /\ [][NextLoop]_vars

\* A call in progress takes its next step: the thread that runs it is never
\* suspended for ever.
LoopLiveSpec == LoopSpec /\ WF_vars(NextLoop)

(***************************************************************************)
(* Properties.                                                             *)
(***************************************************************************)
Zero == [is_negative |-> FALSE, vec |-> <<0>>]

\* C1: after any sequence of constructor and operator calls, every bigint
\* the caller can see (its variables and the value a call returned) has a
\* non-empty digit sequence of digits 0..9 with no most-significant zero
\* (but the single digit 0) and a positive sign when it is zero.
C1_VisibleValuesCanonical ==
    /\ Canonical(x)
    /\ Canonical(y)
    /\ res.kind = "ok" => Canonical(res.val)

\* C2: for all a and b with b # 0, a == (a / b) * b + a % b, and a % b has
\* the sign of a unless the remainder is zero, when it is positive zero.
\* Stated for operands in canonical form.
C2_DivModIdentityAndSign ==
    (call.op = "mod" /\ Canonical(call.a) /\ Canonical(call.b) /\ Value(call.b) # 0)
    => /\ res.kind = "ok"
       /\ op_div(call.a, call.b).kind = "ok"
       /\ op_eq(call.a, op_add(op_mul(op_div(call.a, call.b).val, call.b), res.val))
       /\ Mag(res.val.vec) # 0 => res.val.is_negative = call.a.is_negative
       /\ Mag(res.val.vec) = 0 => res.val = Zero

\* C3: for all a and b with b # 0, a / b is the quotient truncated toward
\* zero: zero when |a| < |b|, otherwise of magnitude floor(|a| / |b|) and
\* negative exactly when the signs of the operands differ.
C3_DivTruncatesTowardZero ==
    (call.op = "div" /\ Value(call.b) # 0)
    => /\ res.kind = "ok"
       /\ Canonical(res.val)
       /\ Mag(res.val.vec) = Mag(call.a.vec) \div Mag(call.b.vec)
       /\ IF Mag(call.a.vec) < Mag(call.b.vec)
          THEN res.val = Zero
          ELSE res.val.is_negative = (call.a.is_negative # call.b.is_negative)

\* -100 / 7 = -14.
C3_Witness ==
    /\ call.op = "div"
    /\ call.a = [is_negative |-> TRUE, vec |-> <<0, 0, 1>>]
    /\ call.b = [is_negative |-> FALSE, vec |-> <<7>>]
    /\ res = Ok([is_negative |-> TRUE, vec |-> <<4, 1>>])

\* C4: for canonical a and b of any signs, a + b is the canonical form of
\* the mathematical sum (so its sign is that of the operand of larger
\* magnitude, and an exact zero is positive).
C4_AddIsSum ==
    (call.op = "add" /\ Canonical(call.a) /\ Canonical(call.b))
    => /\ res.kind = "ok"
       /\ Canonical(res.val)
       /\ Value(res.val) = Value(call.a) + Value(call.b)

\* 99 + (-100) = -1: the signs differ and the right operand is the larger.
C4_Witness ==
    /\ call.op = "add"
    /\ call.a = [is_negative |-> FALSE, vec |-> <<9, 9>>]
    /\ call.b = [is_negative |-> TRUE, vec |-> <<0, 0, 1>>]
    /\ res = Ok([is_negative |-> TRUE, vec |-> <<1>>])

\* C5: for canonical a and b of any signs, a - b is the canonical form of
\* the mathematical difference and equals a + (-b).
C5_SubIsDifference ==
    (call.op = "sub" /\ Canonical(call.a) /\ Canonical(call.b))
    => /\ res.kind = "ok"
       /\ Canonical(res.val)
       /\ Value(res.val) = Value(call.a) - Value(call.b)
       /\ res.val = op_add(call.a, op_neg(call.b))

\* 23 - 56 = -33: same signs, the subtraction crosses zero.
C5_Witness ==
    /\ call.op = "sub"
    /\ call.a = [is_negative |-> FALSE, vec |-> <<3, 2>>]
    /\ call.b = [is_negative |-> FALSE, vec |-> <<6, 5>>]
    /\ res = Ok([is_negative |-> TRUE, vec |-> <<3, 3>>])

\* C6: for canonical a and b, a * b is the canonical form of the
\* mathematical product: negative exactly when the signs differ and the
\* product is not zero, and positive zero when an operand is zero.
C6_MulIsProduct ==
    (call.op = "mul" /\ Canonical(call.a) /\ Canonical(call.b))
    => /\ res.kind = "ok"
       /\ Canonical(res.val)
       /\ Value(res.val) = Value(call.a) * Value(call.b)

\* 99 * (-99) = -9801.
C6_Witness ==
    /\ call.op = "mul"
    /\ call.a = [is_negative |-> FALSE, vec |-> <<9, 9>>]
    /\ call.b = [is_negative |-> TRUE, vec |-> <<9, 9>>]
    /\ res = Ok([is_negative |-> TRUE, vec |-> <<1, 0, 8, 9>>])

\* C7: for canonical a and b the six comparisons agree with the order of
\* the integers: < with the order, == with equality (and with having the
\* same sign and digits), and !=, <=, >, >= with not(==), (< or ==),
\* not(<=), not(<).
C7_ComparisonsAgreeWithOrder ==
    (call.op = "compare" /\ Canonical(call.a) /\ Canonical(call.b))
    => LET c  == res.val
           va == Value(call.a)
           vb == Value(call.b)
       IN  /\ c.lt = (va < vb)
           /\ c.eq = (va = vb)
           /\ c.eq = (call.a.is_negative = call.b.is_negative /\ call.a.vec = call.b.vec)
           /\ c.ne = ~c.eq
           /\ c.le = (c.lt \/ c.eq)
           /\ c.gt = ~c.le
           /\ c.ge = ~c.lt
           /\ c.le = (va <= vb)
           /\ c.gt = (va > vb)
           /\ c.ge = (va >= vb)

\* -100 < -99: two negative numbers of differing digit counts.
C7_Witness ==
    /\ call.op = "compare"
    /\ call.a = [is_negative |-> TRUE, vec |-> <<0, 0, 1>>]
    /\ call.b = [is_negative |-> TRUE, vec |-> <<9, 9>>]
    /\ res.val.lt
    /\ ~res.val.ge

\* C8: for all a and b exactly one of a < b, a == b, a > b holds.
C8_ExactlyOneOfLtEqGt ==
    call.op = "compare"
    => LET c == res.val
       IN  /\ c.lt \/ c.eq \/ c.gt
           /\ ~(c.lt /\ c.eq)
           /\ ~(c.lt /\ c.gt)
           /\ ~(c.eq /\ c.gt)

\* -37 == -37, and neither < nor >.
C8_Witness ==
    /\ call.op = "compare"
    /\ call.a = [is_negative |-> TRUE, vec |-> <<7, 3>>]
    /\ call.b = call.a
    /\ res.val.eq
    /\ ~res.val.lt
    /\ ~res.val.gt

\* A valid decimal string: an optional leading '-', then one or more digits.
DigitsPart(s) == IF Len(s) > 0 /\ s[1] = CH_MINUS THEN Tail(s) ELSE s

ValidDecimal(s) ==
    /\ Len(DigitsPart(s)) >= 1
    /\ \A k \in 1..Len(DigitsPart(s)) : isdigit(DigitsPart(s)[k])

\* The digits without redundant leading zeros.
RECURSIVE StripZeros(_)
StripZeros(d) ==
    IF Len(d) > 1 /\ d[1] = CH_ZERO THEN StripZeros(Tail(d)) ELSE d

\* s without redundant leading zeros, and "0" without sign for a zero.
Normalized(s) ==
    LET d == StripZeros(DigitsPart(s))
    IN  IF d = <<CH_ZERO>> THEN d
        ELSE (IF s[1] = CH_MINUS THEN <<CH_MINUS>> ELSE <<>>) \o d

\* C9: a valid decimal string s parses, and printing the bigint parsed from
\* it yields s without redundant leading zeros, a zero being "0" without
\* sign and equal to bigint(0).
C9_PrintOfParse ==
    /\ (call.op = "str" /\ ValidDecimal(call.s)) => res.kind = "ok"
    /\ (call.op = "print" /\ ValidDecimal(call.s))
       => /\ res.val = Normalized(call.s)
          /\ Normalized(call.s) = <<CH_ZERO>> => op_eq(x, bigint_int(0))

\* "-07" prints as "-7".
C9_Witness ==
    /\ call.op = "print"
    /\ call.s = <<45, 48, 55>>
    /\ res.val = <<45, 55>>

\* C10: construction from a decimal string fails with an exception when the
\* string is empty, is a lone "-", or holds a character that is not a digit
\* after the optional leading '-'.
C10_InvalidStringThrows ==
    (call.op = "str" /\ ~ValidDecimal(call.s)) => res.kind = "throw"

\* C11: a / b and a % b fail with an exception (std::invalid_argument)
\* whenever b is zero, and return a value whenever b is not zero.
C11_DivModThrowExactlyOnZero ==
    call.op \in {"div", "mod"}
    => IF Value(call.b) = 0 THEN res.kind = "throw" ELSE res.kind = "ok"

\* C12: for every base k in 2..36 and every nonnegative v, constructing a
\* bigint in base k from v.to_string(k) succeeds and yields a value equal
\* to v.
C12_BaseRoundTrip ==
    (call.op = "reparse" /\ Value(call.a) >= 0)
    => res.kind = "ok" /\ op_eq(res.val, call.a)

\* The positional representation of n > 0 in base k, most significant digit
\* first, over the alphabet 0-9A-Z.
RECURSIVE Positional(_, _)
Positional(n, k) ==
    IF n = 0 THEN <<>> ELSE Positional(n \div k, k) \o <<digits[(n % k) + 1]>>

Representation(v, k) ==
    IF v = 0 THEN <<CH_ZERO>>
    ELSE IF v < 0 THEN <<CH_MINUS>> \o Positional(-v, k)
    ELSE Positional(v, k)

\* C13: for a base in 2..36, to_string(base) returns the positional
\* representation of the magnitude in that base, most significant digit
\* first, each digit taken from 0-9A-Z by the whole remainder, with "0" for
\* zero and a leading '-' for a negative value.
C13_ToStringIsPositional ==
    (call.op = "to_string" /\ call.base \in 2..36)
    => res = Ok(Representation(Value(call.a), call.base))

\* The value of a character of 0-9A-Za-z, a letter counting 10..35 in
\* either case, and -1 for any other character.
AlnumValue(c) ==
    IF \E k \in 1..Len(digits) : digits[k] = c
    THEN (CHOOSE k \in 1..Len(digits) : digits[k] = c) - 1
    ELSE IF \E k \in 11..Len(digits) : digits[k] + 32 = c
    THEN (CHOOSE k \in 11..Len(digits) : digits[k] + 32 = c) - 1
    ELSE -1

\* A valid string for a base: an optional leading '-', then one or more
\* characters of 0-9A-Za-z whose values are below the base.
ValidBased(s, base) ==
    /\ base \in 2..36
    /\ Len(DigitsPart(s)) >= 1
    /\ \A k \in 1..Len(DigitsPart(s)) : AlnumValue(DigitsPart(s)[k]) \in 0..(base - 1)

\* result = result * base + digit over the characters of d, from acc.
RECURSIVE FoldValue(_, _, _)
FoldValue(d, base, acc) ==
    IF Len(d) = 0 THEN acc
    ELSE FoldValue(Tail(d), base, acc * base + AlnumValue(Head(d)))

\* C14: for a valid string and a base in 2..36, the (string, base)
\* constructor yields the number obtained by folding result = result * base
\* + digit over the characters, negated when the string starts with '-',
\* in canonical form (a zero is positive).
C14_BaseConstructorFolds ==
    (call.op = "base" /\ ValidBased(call.s, call.base))
    => /\ res.kind = "ok"
       /\ Canonical(res.val)
       /\ Value(res.val) = IF call.s[1] = CH_MINUS
                           THEN -FoldValue(DigitsPart(call.s), call.base, 0)
                           ELSE FoldValue(DigitsPart(call.s), call.base, 0)

\* "-aF" in base 36 is -375.
C14_Witness ==
    /\ call.op = "base"
    /\ call.s = <<45, 97, 70>>
    /\ call.base = 36
    /\ res = Ok([is_negative |-> TRUE, vec |-> <<5, 7, 3>>])

\* C15: with a base in 2..36, the (string, base) constructor fails with the
\* invalid-format exception when a character after the optional leading '-'
\* is outside 0-9A-Za-z or has a value of at least the base.
C15_InvalidCharThrows ==
    (/\ call.op = "base"
     /\ call.base \in 2..36
     /\ \E k \in 1..Len(DigitsPart(call.s)) :
           AlnumValue(DigitsPart(call.s)[k]) \notin 0..(call.base - 1))
    => /\ res.kind = "throw"
       /\ res.what = "Invalid character in string for the given base."

\* "G1" in base 16 is rejected.
C15_Witness ==
    /\ call.op = "base"
    /\ call.s = <<71, 49>>
    /\ call.base = 16
    /\ res.kind = "throw"

\* C16: construction from an empty string fails with an exception, both in
\* the (string, base) constructor with a base in 2..36 and in the decimal
\* constructor.
C16_EmptyStringThrows ==
    (/\ call.op \in {"base", "str"}
     /\ call.s = <<>>
     /\ call.op = "base" => call.base \in 2..36)
    => res.kind = "throw"

\* C17: the (string, base) constructor and to_string(base) fail with the
\* invalid-base exception exactly when the base is outside 2..36.
C17_InvalidBaseThrows ==
    call.op \in {"base", "to_string"}
    => ((call.base \notin 2..36)
        <=> (res.kind = "throw" /\ res.what = "Base must be between 2 and 36."))

\* to_string(-1) is rejected: the base received is 2^64 - 1.
C17_Witness ==
    /\ call.op = "to_string"
    /\ call.base = -1
    /\ res.kind = "throw"

\* The four decimal digits of a limb, least significant first.
LimbDigits(l) == <<l % 10, (l \div 10) % 10, (l \div 100) % 10, l \div 1000>>

\* The decimal digits of a magnitude, least significant first, without
\* leading zeros; the single digit 0 for zero.
DecimalDigits(m) ==
    LET all == LimbDigits(m[1]) \o LimbDigits(m[2]) \o LimbDigits(m[3])
               \o LimbDigits(m[4]) \o LimbDigits(m[5])
        nz  == {k \in 1..Len(all) : all[k] # 0}
        top == IF nz = {} THEN 1 ELSE CHOOSE k \in nz : \A j \in nz : j <= k
    IN  SubSeq(all, 1, top)

\* C18: for every int64_t n, from the minimum to the maximum, bigint(n) is
\* negative exactly when n < 0 and its digits are the decimal digits of |n|,
\* least significant first; n = 0 gives the single digit 0, positive.
C18_IntConstructorDigits ==
    call.op = "int64"
    => /\ res.kind = "ok"
       /\ res.val.is_negative = call.n.neg
       /\ res.val.vec = DecimalDigits(call.n.mag)

\* C19: for every bigint a, a + (-a) == 0 and -(-a) == a; negating a zero
\* yields the positive zero; for a nonzero a, -a has the magnitude of a and
\* the opposite sign.
C19_NegationLaws ==
    call.op = "neg"
    => /\ op_eq(op_add(call.a, res.val), bigint_int(0))
       /\ op_eq(op_neg(res.val), call.a)
       /\ Value(call.a) = 0 => res.val = Zero
       /\ Value(call.a) # 0 => /\ res.val.vec = call.a.vec
                               /\ res.val.is_negative # call.a.is_negative

\* The receiver of an increment or decrement after the call.
Receiver == IF call.d = "x" THEN x ELSE y

\* C20: for every starting x, ++x and x++ leave x at the old value plus 1
\* and --x and x-- at the old value minus 1; the prefix forms return the
\* new value and the postfix forms the old one; (x++) + 1 equals x
\* afterwards and --(++x) gives back the starting x.
C20_IncrementDecrement ==
    /\ call.op \in {"preinc", "postinc"}
       => Canonical(Receiver) /\ Value(Receiver) = Value(call.a) + 1
    /\ call.op \in {"predec", "postdec"}
       => Canonical(Receiver) /\ Value(Receiver) = Value(call.a) - 1
    /\ call.op \in {"preinc", "predec"} => res.val = Receiver
    /\ call.op \in {"postinc", "postdec"} => res.val = call.a
    /\ call.op = "postinc" => op_eq(op_add(res.val, bigint_int(1)), Receiver)
    /\ call.op = "preinc" => op_eq(op_sub(Receiver, bigint_int(1)), call.a)

\* The contents of object r after the step.
RegNext(r) == IF r = "x" THEN x' ELSE y'

AbsInt(n) == IF n < 0 THEN -n ELSE n

\* The integer a bin b, the quotient truncated toward zero and the
\* remainder with the sign of a.
IntResult(bin, a, b) ==
    CASE bin = "add" -> a + b
      [] bin = "sub" -> a - b
      [] bin = "mul" -> a * b
      [] bin = "div" -> IF (a < 0) = (b < 0) THEN AbsInt(a) \div AbsInt(b)
                        ELSE -(AbsInt(a) \div AbsInt(b))
      [] bin = "mod" -> IF a < 0 THEN -(AbsInt(a) % AbsInt(b))
                        ELSE AbsInt(a) % AbsInt(b)

\* C21: for each op of +, -, *, /, % and all a and b (b of nonzero value
\* for / and %), a op= b returns and leaves in a the value of (old a) op b,
\* b is unchanged when it is another object, and the same holds for
\* a op= a.
C21_CompoundAssignment ==
    [][(/\ call'.op = "compound"
        /\ call'.bin \in {"div", "mod"} => Value(Reg(call'.rb)) # 0)
       => /\ res'.kind = "ok"
          /\ RegNext(call'.ra) = Apply(call'.bin, Reg(call'.ra), Reg(call'.rb)).val
          /\ Value(RegNext(call'.ra))
                = IntResult(call'.bin, Value(Reg(call'.ra)), Value(Reg(call'.rb)))
          /\ call'.rb # call'.ra => RegNext(call'.rb) = Reg(call'.rb)]_vars

\* x *= x with x = 7 leaves 49 in x.
C21_Witness ==
    /\ call = [op |-> "compound", bin |-> "mul", ra |-> "x", rb |-> "x",
               snap |-> FALSE]
    /\ x = [is_negative |-> FALSE, vec |-> <<9, 4>>]
    /\ res = Ok(x)

\* C22: a failing call leaves no partial state: when a /= b or a %= b
\* throws for a zero divisor, a has the sign and the digits it had before
\* the call (and so has b), and when a construction from a string throws,
\* no value is produced and no object is changed.
C22_FailureLeavesNoState ==
    [][/\ (call'.op = "compound" /\ call'.bin \in {"div", "mod"}
            /\ res'.kind = "throw")
          => /\ res'.what \in {"Division by zero", "Modulus by zero"}
             /\ RegNext(call'.ra).is_negative = Reg(call'.ra).is_negative
             /\ RegNext(call'.ra).vec = Reg(call'.ra).vec
             /\ UNCHANGED <<x, y>>
       /\ (call'.op = "construct" /\ res'.kind = "throw")
          => /\ DOMAIN res' = {"kind", "what"}
             /\ UNCHANGED <<x, y>>]_vars

\* x /= y with x = -7 and y = 0 throws and x is still -7.
C22_Witness ==
    /\ call = [op |-> "compound", bin |-> "div", ra |-> "x", rb |-> "y",
               snap |-> FALSE]
    /\ res = Throw("Division by zero")
    /\ x = [is_negative |-> TRUE, vec |-> <<7>>]
    /\ y = [is_negative |-> FALSE, vec |-> <<0>>]

\* C23: no operation on one bigint changes another: the binary operators,
\* unary -, the comparisons, stream output and to_string change neither
\* object; a copy and the value returned by x++ or x-- hold the value x had;
\* and they keep it when x is then mutated by a compound assignment or an
\* increment or decrement.
C23_NoAliasing ==
    [][/\ call'.op \in {"binary", "negate", "compare", "output", "to_string"}
          => UNCHANGED <<x, y>>
       /\ call'.op = "copy"
          => /\ RegNext(Other(call'.ra)) = Reg(call'.ra)
             /\ RegNext(call'.ra) = Reg(call'.ra)
       /\ (call'.op = "postfix" /\ call'.keep)
          => /\ res' = Ok(Reg(call'.ra))
             /\ RegNext(Other(call'.ra)) = Reg(call'.ra)
       /\ (call'.op \in {"compound", "prefix", "postfix"} /\ call'.snap)
          => RegNext(Other(call'.ra)) = Reg(Other(call'.ra))]_vars

\* y = x++ with x = 9, then x *= x: x is 100 and y is still 9.
C23_Witness ==
    /\ call = [op |-> "compound", bin |-> "mul", ra |-> "x", rb |-> "x",
               snap |-> TRUE]
    /\ x = [is_negative |-> FALSE, vec |-> <<0, 0, 1>>]
    /\ y = [is_negative |-> FALSE, vec |-> <<9>>]

\* C24: multiplication is commutative and distributes over addition: for
\* all a, b and c of any signs, a * b == b * a and
\* a * (b + c) == a * b + a * c.
C24_MulCommutesAndDistributes ==
    /\ call.op = "commute" => op_eq(res.val.ab, res.val.ba)
    /\ call.op = "distribute" => op_eq(res.val.lhs, res.val.rhs)

\* -12 * (999 + -100) and -12 * 999 + -12 * -100 are both -10788.
C24_Witness ==
    /\ call.op = "distribute"
    /\ call.a = [is_negative |-> TRUE, vec |-> <<2, 1>>]
    /\ call.b = [is_negative |-> FALSE, vec |-> <<9, 9, 9>>]
    /\ call.c = [is_negative |-> TRUE, vec |-> <<0, 0, 1>>]
    /\ res.val.lhs = [is_negative |-> TRUE, vec |-> <<8, 8, 7, 0, 1>>]
    /\ res.val.rhs = res.val.lhs

\* C25: every operator maintains the normal form: when the operands are
\* canonical, the value returned by +, -, *, /, %, unary -, ++ and --, and
\* the object left by ++ and --, are canonical, so that the result is equal
\* (same sign, same digits) to the canonical bigint of the same integer.
C25_OperatorsKeepCanonical ==
    [][/\ (/\ call'.op \in {"binary", "compound"}
            /\ Canonical(Reg(call'.ra))
            /\ Canonical(Reg(call'.rb))
            /\ res'.kind = "ok")
          => /\ Canonical(res'.val)
             /\ op_eq(res'.val, bigint_int(Value(res'.val)))
       /\ (/\ call'.op \in {"negate", "prefix", "postfix"}
            /\ Canonical(Reg(call'.ra)))
          => /\ Canonical(res'.val)
             /\ Canonical(RegNext(call'.ra))
             /\ op_eq(res'.val, bigint_int(Value(res'.val)))]_vars

\* C26: in the long-division loop of a / b with b not zero, at every digit
\* position the number of subtractions of |b| is between 0 and 9, and once
\* the subtractions of a position are over the running remainder is
\* non-negative and strictly less than |b| before the next digit is brought
\* down.
C26_DivisionLoopBounds ==
    (call.op = "loop" /\ call.f = "div" /\ Value(call.b) # 0)
        => /\ Mag(call.a.vec) >= Mag(call.b.vec)
           /\ call.count \in 0..9
           /\ \A k \in 1..Len(call.quotient) : call.quotient[k] \in 0..9
           /\ call.pc = "for"
                 => /\ ~call.current.is_negative
                    /\ Value(call.current) >= 0
                    /\ Value(call.current) < Mag(call.b.vec)

\* -99 / 10 after its last digit position: nine subtractions, remainder 9.
C26_Witness ==
    /\ call.op = "loop"
    /\ call.f = "div"
    /\ call.a = bigint_int(-99)
    /\ call.b = bigint_int(10)
    /\ call.pc = "for"
    /\ call.i = 0
    /\ call.count = 9
    /\ call.quotient = <<0, 9>>
    /\ call.current = bigint_int(9)

\* C27: every call of subtract_vec made by operator+ on different signs, by
\* operator- on equal signs, and by the repeated subtraction inside / and %,
\* passes a first magnitude at least as large as the second, so the borrow
\* after the last digit is 0 and the difference is not wrapped.
C27_SubtractNeverBorrowsOut ==
    ("sub" \in DOMAIN call /\ call.sub # <<>>)
        => /\ Mag(call.sub[1]) >= Mag(call.sub[2])
           /\ borrow_loop(call.sub[1], call.sub[2], 0, 0) = 0
           /\ Mag(subtract_vec(call.sub[1], call.sub[2]))
                 = Mag(call.sub[1]) - Mag(call.sub[2])

\* 3 + (-100) subtracts 3 from 100 with a borrow through two digits.
C27_Witness ==
    /\ call.op = "add"
    /\ call.a = bigint_int(3)
    /\ call.b = bigint_int(-100)
    /\ call.sub = <<(<<0, 0, 1>>), (<<3>>)>>
    /\ res = Ok(bigint_int(-97))

\* C28: for canonical operands the repeated-subtraction loops of a / b and
\* a % b (b not zero) and the divide-until-zero loop of to_string with a base
\* in 2..36 are left after finitely many iterations and a result is returned.
C28_LoopsTerminate ==
    (/\ call.op \in {"loop", "to_string"}
     /\ Canonical(call.a)
     /\ call.op = "loop" => Canonical(call.b))
        ~> (call.op = "done" /\ res.kind = "ok")

\* -100 % 7 has gone through its loop and returned -2.
C28_Witness ==
    /\ call = [op |-> "done", f |-> "mod", a |-> bigint_int(-100), b |-> bigint_int(7)]
    /\ res = Ok(bigint_int(-2))

\* C29: for all a and b with b not zero, the magnitude of a % b is strictly
\* less than the magnitude of b, and when |a| < |b| the result of a % b is a
\* itself, sign included.
C29_RemainderBelowDivisor ==
    (call.op = "mod" /\ Value(call.b) # 0)
        => /\ res.kind = "ok"
           /\ Mag(res.val.vec) < Mag(call.b.vec)
           /\ Mag(call.a.vec) < Mag(call.b.vec) => res.val = call.a

\* -3 % 5 is -3, and -104 % 9 is -5.
C29_Witness ==
    /\ call.op = "mod"
    /\ \/ call.a = bigint_int(-3) /\ call.b = bigint_int(5) /\ res = Ok(bigint_int(-3))
       \/ call.a = bigint_int(-104) /\ call.b = bigint_int(9) /\ res = Ok(bigint_int(-5))

\* C30: in operator*, for canonical operands every write to the product
\* buffer uses an index i + j of at most len(a) + len(b) - 1, every stored
\* digit is in 0..9, and the carry is zero when the inner loop ends.
C30_ProductBufferBounds ==
    (call.op = "mul" /\ Canonical(call.a) /\ Canonical(call.b))
        => LET p == mul_product(call.a.vec, call.b.vec)
           IN  /\ ~p.oob
               /\ Len(p.product) = Len(call.a.vec) + Len(call.b.vec)
               /\ \A k \in 1..Len(p.product) : p.product[k] \in 0..9
               /\ Mag(p.product) = Mag(call.a.vec) * Mag(call.b.vec)
               /\ res = Ok(bigint_vec(call.a.is_negative # call.b.is_negative, p.product))

\* -99 * 99 = -9801 fills the last slot of the four-digit buffer through
\* the carry.
C30_Witness ==
    /\ call.op = "mul"
    /\ call.a = bigint_int(-99)
    /\ call.b = bigint_int(99)
    /\ mul_product(call.a.vec, call.b.vec) = [product |-> <<1, 0, 8, 9>>, oob |-> FALSE]
    /\ res = Ok(bigint_int(-9801))

====
